---------------------------- MODULE Spec2Model ----------------------------
(***************************************************************************)
(* A model of the deterministic state machine notebook                     *)
(* (projects/2-state-machines/Hess.ipynb): the StateMachine class, the     *)
(* acceptance test check, and the two enumerators of accepted strings,     *)
(* try_sample (copy per branch) and sample (save and restore).             *)
(*                                                                         *)
(* A Python string is modelled as the sequence of its characters, and a    *)
(* symbol is a single character, as in every machine of the notebook       *)
(* ("each step of the path is associated with a symbol (i.e., a letter)"). *)
(* A Python dict is modelled as the sequence of its <<key, value>> pairs   *)
(* in insertion order.  The order in which a dict is iterated is not       *)
(* fixed by the language version the notebook names (3.5.2, whose recorded *)
(* outputs list '@' and '.' before 'x' at every branch): it is the         *)
(* insertion order on interpreters from 3.7 on, and before that the order  *)
(* of the slots the keys took in the dict's own hash table, which depends  *)
(* on the hashes of the run and, where two keys collide, on the order in   *)
(* which they were inserted.  Two dicts filled with the same keys in the   *)
(* same order are iterated alike; dict_order holds, for every sequence of  *)
(* keys a dict of the table was filled with, the order of its iteration.   *)
(* A call either returns a value or raises; the result of a method is a    *)
(* record [raised, val, sm] holding the exception flag, the returned value *)
(* and the object after the call.                                          *)
(***************************************************************************)
EXTENDS Naturals, Sequences, FiniteSets

\* The labels the edge lists are drawn from.
StateIds == {"s1", "s2"}
Symbols == {"a", "b"}

\* Longest edge list given to the constructor.
MaxEdges == 2
\* Longest string given to check.
MaxLen == 2
\* Largest length given to sample and try_sample.
MaxSample == 2

Triples == StateIds \X Symbols \X StateIds
EdgeLists == UNION {[1..n -> Triples] : n \in 0..MaxEdges}
\* The lists of terminals: empty, one state, all, and one state given twice.
TerminalLists == {<<>>, <<"s1">>, <<"s1", "s2">>, <<"s2", "s2">>}
Strings == UNION {[1..n -> Symbols] : n \in 0..MaxLen}

VARIABLES
    edges,       \* the constructor's argument edges
    init_state,  \* the constructor's argument init_state
    terminals,   \* the constructor's argument terminals
    dict_order,  \* the interpreter's dict iteration order: for the keys of a dict
                 \* in insertion order, the order "for k in d" visits them in
    sm,          \* the StateMachine object: [constructed, states, state, terminal_states]
    op,          \* the last call: [name, arg, pre, ret], ret = [raised, val]
    stack        \* the frames of a sample call that is followed statement by
                 \* statement, innermost last; empty when no such call is running

vars == <<edges, init_state, terminals, dict_order, sm, op, stack>>

-----------------------------------------------------------------------------
\* Python dict, as the sequence of its items in insertion order.

\* set(lst)
ToSet(lst) == {lst[i] : i \in 1..Len(lst)}

\* k in d
HasKey(d, k) == \E i \in 1..Len(d) : d[i][1] = k

\* d[k], for k in d
Get(d, k) == d[CHOOSE i \in 1..Len(d) : d[i][1] = k][2]

\* d[k] = v for a key that d does not hold yet
Put(d, k, v) == Append(d, <<k, v>>)

\* the keys of d in the order they were inserted in
KeySeq(d) == [i \in 1..Len(d) |-> d[i][1]]

\* the keys in the order "for k in d" visits them: the order the interpreter has
\* for dicts filled as d was, and the insertion order where it has none of its own
\* (a dict of fewer than two keys, an interpreter from 3.7 on)
Keys(d) ==
    IF KeySeq(d) \in DOMAIN dict_order THEN dict_order[KeySeq(d)] ELSE KeySeq(d)

\* What a call produced: a returned value, or an exception, and the object after it.
Return(v, m) == [raised |-> FALSE, val |-> v, sm |-> m]
Raise(e, m) == [raised |-> TRUE, val |-> e, sm |-> m]

-----------------------------------------------------------------------------
\* class StateMachine

\* The object before __init__ has run, and after __init__ has raised.
NoMachine ==
    [constructed |-> FALSE, states |-> <<>>, state |-> "", terminal_states |-> {}]

\* self.states with src and dest ensured to be keys (empty dicts when new).
Ensure(states, s) ==
    IF s \in DOMAIN states THEN states
    ELSE [x \in (DOMAIN states) \cup {s} |-> IF x = s THEN <<>> ELSE states[x]]

\* d[k] = v, replacing the value of a key d holds already
Overwrite(d, k, v) ==
    IF HasKey(d, k) THEN [i \in 1..Len(d) |-> IF d[i][1] = k THEN <<k, v>> ELSE d[i]]
    ELSE Put(d, k, v)

RECURSIVE InitLoopOverwrite(_, _, _)
\* Mutant of InitLoop: the test "symbol in self.states[src]" is missing, so a
\* later edge silently replaces an earlier one.
InitLoopOverwrite(es, i, states) ==
    IF i > Len(es) THEN [raised |-> FALSE, states |-> states]
    ELSE LET src == es[i][1]
             symbol == es[i][2]
             dest == es[i][3]
             st == Ensure(Ensure(states, src), dest)
         IN  InitLoopOverwrite(es, i + 1,
                               [st EXCEPT ![src] = Overwrite(st[src], symbol, dest)])

RECURSIVE InitLoop(_, _, _)
\* Mutant of InitLoop: "self.states[src][symbol] = src", the source written where
\* the destination belongs.
InitLoopSrc(es, i, states) ==
    IF i > Len(es) THEN [raised |-> FALSE, states |-> states]
    ELSE LET src == es[i][1]
             symbol == es[i][2]
             dest == es[i][3]
             st == Ensure(Ensure(states, src), dest)
         IN  IF HasKey(st[src], symbol)
             THEN [raised |-> TRUE, states |-> st]
             ELSE InitLoop(es, i + 1, [st EXCEPT ![src] = Put(st[src], symbol, src)])

\* Mutant of InitBody: "if dest not in self.states" is missing, so a state that is
\* only ever a destination gets no out-edge dict.
InitBodyNoDest(es, i, states) ==
    LET src == es[i][1]
        symbol == es[i][2]
        dest == es[i][3]
        st == Ensure(states, src)
    IN  IF HasKey(st[src], symbol)
        THEN [raised |-> TRUE, states |-> st]
        ELSE [raised |-> FALSE, states |-> [st EXCEPT ![src] = Put(st[src], symbol, dest)]]

\* Mutant of InitBody: the exception is raised only "if symbol in self.states[src]
\* and self.states[src][symbol] != dest", so a repeated identical edge is let through.
InitBodySameDest(es, i, states) ==
    LET src == es[i][1]
        symbol == es[i][2]
        dest == es[i][3]
        st == Ensure(Ensure(states, src), dest)
    IN  IF HasKey(st[src], symbol)
        THEN IF Get(st[src], symbol) # dest
             THEN [raised |-> TRUE, states |-> st]
             ELSE [raised |-> FALSE, states |-> st]
        ELSE [raised |-> FALSE, states |-> [st EXCEPT ![src] = Put(st[src], symbol, dest)]]

\* The body of the for loop of __init__ for the i-th edge: the table after it, or
\* the exception.
InitBody(es, i, states) ==
    LET src == es[i][1]
        symbol == es[i][2]
        dest == es[i][3]
        st == Ensure(Ensure(states, src), dest)
    IN  IF HasKey(st[src], symbol)
        THEN [raised |-> TRUE, states |-> st]
        ELSE [raised |-> FALSE, states |-> [st EXCEPT ![src] = Put(st[src], symbol, dest)]]

RECURSIVE InitRange(_, _, _, _)
\* The iterations lo..hi of the loop in order, ending at the first that raises.
\* The range is run as its first half and then its second half, which keeps the
\* evaluation shallow for the hundred edges of test3.
InitRange(es, lo, hi, states) ==
    IF lo > hi THEN [raised |-> FALSE, states |-> states]
    ELSE IF lo = hi THEN InitBody(es, lo, states)
    ELSE LET mid == (lo + hi) \div 2
             r == InitRange(es, lo, mid, states)
         IN  IF r.raised THEN r ELSE InitRange(es, mid + 1, hi, r.states)

\* The for loop of __init__ from the i-th edge on: the table, or the exception.
InitLoop(es, i, states) == InitRange(es, i, Len(es), states)

\* StateMachine(edges, init_state, terminals)
StateMachine(es, init, terms) ==
    LET r == InitLoop(es, 1, <<>>)
    IN  IF r.raised THEN Raise("Exception", NoMachine)
        ELSE Return("None", [constructed |-> TRUE, states |-> r.states,
                             state |-> init, terminal_states |-> ToSet(terms)])

\* The orders in which the keys ks can be visited.
Perms(ks) == {p \in [1..Len(ks) -> ToSet(ks)] : ToSet(p) = ToSet(ks)}

\* The dicts of more than one key in the table built from the edges es, each as the
\* sequence of its keys in insertion order.
Branching(es) ==
    LET states == InitLoop(es, 1, <<>>).states
    IN  {KeySeq(states[q]) : q \in {r \in DOMAIN states : Len(states[r]) > 1}}

\* The iteration orders an interpreter may have for the dicts of the table built
\* from es: any order for each way of filling a dict, the same for dicts filled in
\* the same way.  The insertion order of every dict is one of them.
DictOrdersOf(es) ==
    {f \in [Branching(es) -> UNION {Perms(ks) : ks \in Branching(es)}] :
        \A ks \in Branching(es) : f[ks] \in Perms(ks)}

\* Mutant of out_edges: self.states.setdefault(self.state, dict()), which enters
\* a missing state into the table.
out_edges_setdefault(m) ==
    IF m.state \in DOMAIN m.states THEN Return(m.states[m.state], m)
    ELSE Return(<<>>, [m EXCEPT !.states = Ensure(m.states, m.state)])

\* self.out_edges()
out_edges(m) ==
    IF m.state \in DOMAIN m.states THEN Return(m.states[m.state], m)
    ELSE Raise("KeyError", m)

\* self.is_terminal()
is_terminal(m) == Return(m.state \in m.terminal_states, m)

\* self.is_stuck()
is_stuck(m) ==
    LET e == out_edges(m)
    IN  IF e.raised THEN e ELSE Return(Len(e.val) = 0, e.sm)

\* Mutant of advance: "self.state = self.out_edges().pop(symbol)", which takes the
\* edge out of the table as it is followed.
advance_pop(m, symbol) ==
    LET e == out_edges(m)
    IN  IF e.raised THEN e
        ELSE IF HasKey(e.val, symbol)
             THEN Return("None",
                         [e.sm EXCEPT !.state = Get(e.val, symbol),
                                      !.states[m.state] =
                                          SelectSeq(@, LAMBDA item : item[1] # symbol)])
             ELSE Raise("KeyError", e.sm)

\* Mutant of advance: "self.state = symbol" once the lookup has succeeded, the
\* symbol written where the destination belongs.
advance_symbol(m, symbol) ==
    LET e == out_edges(m)
    IN  IF e.raised THEN e
        ELSE IF HasKey(e.val, symbol)
             THEN Return("None", [e.sm EXCEPT !.state = symbol])
             ELSE Raise("KeyError", e.sm)

\* Mutant of advance: self.out_edges().get(symbol, self.state), which stays put on
\* a symbol that labels no out-edge.
advance_get(m, symbol) ==
    LET e == out_edges(m)
    IN  IF e.raised THEN e
        ELSE IF HasKey(e.val, symbol)
             THEN Return("None", [e.sm EXCEPT !.state = Get(e.val, symbol)])
             ELSE Return("None", e.sm)

\* self.advance(symbol)
advance(m, symbol) ==
    LET e == out_edges(m)
    IN  IF e.raised THEN e
        ELSE IF HasKey(e.val, symbol)
             THEN Return("None", [e.sm EXCEPT !.state = Get(e.val, symbol)])
             ELSE Raise("KeyError", e.sm)

-----------------------------------------------------------------------------
\* check(sm, string)

RECURSIVE CheckLoop(_, _, _)
RECURSIVE CheckLoopSkip(_, _, _)
\* Mutant of CheckLoop: a symbol that labels no out-edge is skipped instead of
\* ending the loop with False.
CheckLoopSkip(m, string, i) ==
    IF i > Len(string) THEN is_terminal(m)
    ELSE LET e == out_edges(m)
         IN  IF e.raised THEN e
             ELSE IF HasKey(e.val, string[i])
                  THEN LET a == advance(e.sm, string[i])
                       IN  IF a.raised THEN a ELSE CheckLoopSkip(a.sm, string, i + 1)
                  ELSE CheckLoopSkip(e.sm, string, i + 1)

\* Mutant of CheckLoop: "break" instead of "return False" on a symbol that labels no
\* out-edge, so the answer is is_terminal() of the state the loop stopped in.
CheckLoopBreak(m, string, i) ==
    IF i > Len(string) THEN is_terminal(m)
    ELSE LET e == out_edges(m)
         IN  IF e.raised THEN e
             ELSE IF HasKey(e.val, string[i])
                  THEN LET a == advance(e.sm, string[i])
                       IN  IF a.raised THEN a ELSE CheckLoop(a.sm, string, i + 1)
                  ELSE is_terminal(e.sm)

\* The for loop of check from index i on (1-based).
CheckLoop(m, string, i) ==
    IF i > Len(string) THEN is_terminal(m)
    ELSE LET e == out_edges(m)
         IN  IF e.raised THEN e
             ELSE IF HasKey(e.val, string[i])
                  THEN LET a == advance(e.sm, string[i])
                       IN  IF a.raised THEN a ELSE CheckLoop(a.sm, string, i + 1)
                  ELSE Return(FALSE, e.sm)

\* Mutant of check: range(1, len(string)), which never reads the first character.
check_from_second(m, string) == CheckLoop(m, string, 2)

check(m, string) == CheckLoop(m, string, 1)

-----------------------------------------------------------------------------
\* recur(sm, length, path, works) and try_sample(sm, length)

\* copy.copy(sm): a new object with the same fields.  self.states and
\* self.terminal_states are the same dict and set objects as the original's.
Copy(m) == m

\* The object m after calls on a shallow copy of it that is now c: the cursor is
\* m's own, the table and the terminal set are the ones the copy shares with it.
Shared(m, c) == [m EXCEPT !.states = c.states, !.terminal_states = c.terminal_states]

RECURSIVE recur(_, _, _, _)
RECURSIVE RecurLoop(_, _, _, _, _, _)

\* Mutant of RecurLoop: "works += recur(...)" with recur returning works, so every
\* string found so far is entered again.
RecurLoopDouble(m, length, path, works, ks, i) ==
    IF i > Len(ks) THEN Return(works, m)
    ELSE LET smCopy == Copy(m)
             a == advance(smCopy, ks[i])
         IN  IF a.raised THEN Raise(a.val, Shared(m, a.sm))
             ELSE LET r == recur(a.sm, length - 1, Append(path, ks[i]), works)
                  IN  IF r.raised THEN Raise(r.val, Shared(m, r.sm))
                      ELSE RecurLoop(Shared(m, r.sm), length, path, works \o r.val, ks, i + 1)

\* Mutant of RecurLoop: "smCopy = sm" instead of copy.copy(sm), so the branches
\* advance the caller's object.
RecurLoopAlias(m, length, path, works, ks, i) ==
    IF i > Len(ks) THEN Return(works, m)
    ELSE LET a == advance(m, ks[i])
         IN  IF a.raised THEN a
             ELSE LET r == recur(a.sm, length - 1, Append(path, ks[i]), works)
                  IN  IF r.raised THEN r
                      ELSE RecurLoop(r.sm, length, path, r.val, ks, i + 1)

\* The for loop of recur over the keys ks from the i-th on; works is the list the
\* calls append to.  The result's val is works after the loop.
RecurLoop(m, length, path, works, ks, i) ==
    IF i > Len(ks) THEN Return(works, m)
    ELSE LET smCopy == Copy(m)
             a == advance(smCopy, ks[i])
         IN  IF a.raised THEN Raise(a.val, Shared(m, a.sm))
             ELSE LET r == recur(a.sm, length - 1, Append(path, ks[i]), works)
                  IN  IF r.raised THEN Raise(r.val, Shared(m, r.sm))
                      ELSE RecurLoop(Shared(m, r.sm), length, path, r.val, ks, i + 1)

\* Mutant of recur: the path is appended at length 0 whether or not the state is
\* terminal.
recur_any_state(m, length, path, works) ==
    IF length = 0
    THEN Return(Append(works, path), m)
    ELSE LET e == out_edges(m)
         IN  IF e.raised THEN e
             ELSE RecurLoop(e.sm, length, path, works, Keys(e.val), 1)

\* recur: val is works after the call; sm is the caller's object after the call.
recur(m, length, path, works) ==
    IF length = 0
    THEN IF is_terminal(m).val THEN Return(Append(works, path), m)
         ELSE Return(works, m)
    ELSE LET e == out_edges(m)
         IN  IF e.raised THEN e
             ELSE RecurLoop(e.sm, length, path, works, Keys(e.val), 1)

try_sample(m, length) == recur(m, length, <<>>, <<>>)

-----------------------------------------------------------------------------
\* sample(sm, length) and sample2(sm, length, sofar)

RECURSIVE sample2(_, _, _)
RECURSIVE Sample2Loop(_, _, _, _, _, _, _)

\* Mutant of Sample2Loop: "return result" indented into the loop body, so only the
\* first out-edge is explored.
Sample2LoopFirstOnly(m, length, sofar, state, result, ks, i) ==
    IF i > Len(ks) THEN Return(result, m)
    ELSE LET a == advance(m, ks[i])
         IN  IF a.raised THEN a
             ELSE LET r == sample2(a.sm, length - 1, Append(sofar, ks[i]))
                  IN  IF r.raised THEN r
                      ELSE Return(result \o r.val, [r.sm EXCEPT !.state = state])

\* Mutant of Sample2Loop: "result = sample2(...) + result", which puts a later
\* branch's strings first.
Sample2LoopPrepend(m, length, sofar, state, result, ks, i) ==
    IF i > Len(ks) THEN Return(result, m)
    ELSE LET a == advance(m, ks[i])
         IN  IF a.raised THEN a
             ELSE LET r == sample2(a.sm, length - 1, Append(sofar, ks[i]))
                  IN  IF r.raised THEN r
                      ELSE Sample2Loop([r.sm EXCEPT !.state = state], length, sofar,
                                       state, r.val \o result, ks, i + 1)

\* Mutant of Sample2Loop: "sm.state = state" is missing after the recursive call.
Sample2LoopNoRestore(m, length, sofar, state, result, ks, i) ==
    IF i > Len(ks) THEN Return(result, m)
    ELSE LET a == advance(m, ks[i])
         IN  IF a.raised THEN a
             ELSE LET r == sample2(a.sm, length - 1, Append(sofar, ks[i]))
                  IN  IF r.raised THEN r
                      ELSE Sample2Loop(r.sm, length, sofar,
                                       state, result \o r.val, ks, i + 1)

\* The for loop of sample2 over the keys ks from the i-th on; state is the saved
\* cursor and result the list built so far.
Sample2Loop(m, length, sofar, state, result, ks, i) ==
    IF i > Len(ks) THEN Return(result, m)
    ELSE LET a == advance(m, ks[i])
         IN  IF a.raised THEN a
             ELSE LET r == sample2(a.sm, length - 1, Append(sofar, ks[i]))
                  IN  IF r.raised THEN r
                      ELSE Sample2Loop([r.sm EXCEPT !.state = state], length, sofar,
                                       state, result \o r.val, ks, i + 1)

\* Mutant of sample2: at length 0 the path is returned whether or not the state is
\* terminal.
sample2_any_state(m, length, sofar) ==
    IF length = 0
    THEN Return(<<sofar>>, m)
    ELSE LET e == out_edges(m)
         IN  IF e.raised THEN e
             ELSE Sample2Loop(e.sm, length, sofar, m.state, <<>>, Keys(e.val), 1)

sample2(m, length, sofar) ==
    IF length = 0
    THEN IF is_terminal(m).val THEN Return(<<sofar>>, m) ELSE Return(<<>>, m)
    ELSE LET e == out_edges(m)
         IN  IF e.raised THEN e
             ELSE Sample2Loop(e.sm, length, sofar, m.state, <<>>, Keys(e.val), 1)

sample(m, length) == sample2(m, length, <<>>)

-----------------------------------------------------------------------------
\* The calls.

Called(name, arg, r) ==
    /\ stack = <<>>
    /\ sm' = r.sm
    /\ op' = [name |-> name, arg |-> arg, pre |-> sm.state,
              ret |-> [raised |-> r.raised, val |-> r.val]]
    /\ UNCHANGED <<edges, init_state, terminals, dict_order, stack>>

Init ==
    /\ edges \in EdgeLists
    /\ init_state \in StateIds
    /\ terminals \in TerminalLists
    /\ dict_order \in DictOrdersOf(edges)
    /\ sm = NoMachine
    /\ op = [name |-> "new", arg |-> "", pre |-> "", ret |-> [raised |-> FALSE, val |-> "None"]]
    /\ stack = <<>>

Construct ==
    /\ op.name = "new"
    /\ Called("StateMachine", "", StateMachine(edges, init_state, terminals))

Advance ==
    /\ sm.constructed
    /\ \E symbol \in Symbols : Called("advance", symbol, advance(sm, symbol))

OutEdges ==
    /\ sm.constructed
    /\ Called("out_edges", "", out_edges(sm))

IsTerminal ==
    /\ sm.constructed
    /\ Called("is_terminal", "", is_terminal(sm))

IsStuck ==
    /\ sm.constructed
    /\ Called("is_stuck", "", is_stuck(sm))

Check ==
    /\ sm.constructed
    /\ \E string \in Strings : Called("check", string, check(sm, string))

TrySample ==
    /\ sm.constructed
    /\ \E length \in 0..MaxSample : Called("try_sample", length, try_sample(sm, length))

Sample ==
    /\ sm.constructed
    /\ \E length \in 0..MaxSample : Called("sample", length, sample(sm, length))

Next ==
    \/ Construct
    \/ Advance
    \/ OutEdges
    \/ IsTerminal
    \/ IsStuck
    \/ Check
    \/ TrySample
    \/ Sample

Spec == Init /\ [][Next]_vars

-----------------------------------------------------------------------------
\* Consecutive advance calls, as in the first code cell (advance("a") and then
\* advance("b")).

RECURSIVE AdvanceAll(_, _, _)
\* sm.advance(string[i]); sm.advance(string[i + 1]); ... up to the first that raises.
AdvanceAll(m, string, i) ==
    IF i > Len(string) THEN Return("None", m)
    ELSE LET a == advance(m, string[i])
         IN  IF a.raised THEN a ELSE AdvanceAll(a.sm, string, i + 1)

Walk ==
    /\ sm.constructed
    /\ \E string \in Strings : Called("advance*", string, AdvanceAll(sm, string, 1))

NextWalk ==
    \/ Construct
    \/ Advance
    \/ Walk

SpecWalk == Init /\ [][NextWalk]_vars

-----------------------------------------------------------------------------
\* sample(sm, length) followed statement by statement: one frame per call of
\* sample2 that has not returned, with its arguments, its locals and its position.

\* The frame of a call sample2(sm, length, sofar) that has not run yet.
Frame(length, sofar) ==
    [length |-> length, sofar |-> sofar, state |-> "", result |-> <<>>,
     ks |-> <<>>, i |-> 0, pc |-> "enter"]

\* The innermost frame.
Top == stack[Len(stack)]

\* stack with its innermost frame replaced by f.
WithTop(f) == [stack EXCEPT ![Len(stack)] = f]

\* "return v" of the innermost call: to the caller of sample, or into the
\* "result += ..." of the calling frame.
S2Return(v) ==
    IF Len(stack) = 1
    THEN /\ stack' = <<>>
         /\ op' = [op EXCEPT !.name = "sample", !.ret = [raised |-> FALSE, val |-> v]]
    ELSE /\ stack' = [SubSeq(stack, 1, Len(stack) - 1) EXCEPT ![Len(stack) - 1] =
                          [@ EXCEPT !.result = @ \o v, !.pc = "restore"]]
         /\ UNCHANGED op

\* An exception leaves every frame: nothing catches it.
S2Raise(e) ==
    /\ stack' = <<>>
    /\ op' = [op EXCEPT !.name = "sample", !.ret = [raised |-> TRUE, val |-> e]]

\* sample(sm, length) is called: sample2(sm, length, "") is entered.
S2Begin ==
    /\ stack = <<>>
    /\ sm.constructed
    /\ \E length \in 0..MaxSample :
          /\ stack' = <<Frame(length, <<>>)>>
          /\ op' = [name |-> "sample2", arg |-> length, pre |-> sm.state,
                    ret |-> [raised |-> FALSE, val |-> "None"]]
    /\ UNCHANGED <<edges, init_state, terminals, dict_order, sm>>

\* From "if length == 0" to the head of the for loop.
S2Enter ==
    /\ stack # <<>>
    /\ Top.pc = "enter"
    /\ IF Top.length = 0
       THEN /\ S2Return(IF is_terminal(sm).val THEN <<Top.sofar>> ELSE <<>>)
            /\ UNCHANGED sm
       ELSE LET e == out_edges(sm)
            IN  IF e.raised
                THEN S2Raise(e.val) /\ sm' = e.sm
                ELSE /\ stack' = WithTop([Top EXCEPT !.state = sm.state, !.result = <<>>,
                                                    !.ks = Keys(e.val), !.i = 1,
                                                    !.pc = "loop"])
                     /\ UNCHANGED <<sm, op>>
    /\ UNCHANGED <<edges, init_state, terminals, dict_order>>

\* The for loop: the next edge is advanced along and sample2 called, or the loop
\* is over and result returned.
S2Loop ==
    /\ stack # <<>>
    /\ Top.pc = "loop"
    /\ IF Top.i > Len(Top.ks)
       THEN S2Return(Top.result) /\ UNCHANGED sm
       ELSE LET edge == Top.ks[Top.i]
                a == advance(sm, edge)
            IN  IF a.raised
                THEN S2Raise(a.val) /\ sm' = a.sm
                ELSE /\ sm' = a.sm
                     /\ stack' = Append(WithTop([Top EXCEPT !.pc = "called"]),
                                        Frame(Top.length - 1, Append(Top.sofar, edge)))
                     /\ UNCHANGED op
    /\ UNCHANGED <<edges, init_state, terminals, dict_order>>

\* Mutant of S2Restore: "sm.state = state" is missing.
S2RestoreSkip ==
    /\ stack # <<>>
    /\ Top.pc = "restore"
    /\ stack' = WithTop([Top EXCEPT !.i = @ + 1, !.pc = "loop"])
    /\ UNCHANGED <<edges, init_state, terminals, dict_order, sm, op>>

\* "sm.state = state" after the recursive call has returned.
S2Restore ==
    /\ stack # <<>>
    /\ Top.pc = "restore"
    /\ sm' = [sm EXCEPT !.state = Top.state]
    /\ stack' = WithTop([Top EXCEPT !.i = @ + 1, !.pc = "loop"])
    /\ UNCHANGED <<edges, init_state, terminals, dict_order, op>>

NextSteps ==
    \/ Construct
    \/ Advance
    \/ S2Begin
    \/ S2Enter
    \/ S2Loop
    \/ S2Restore

SpecSteps == Init /\ [][NextSteps]_vars

\* try_sample(sm, length) followed statement by statement: one frame per call of
\* recur that has not returned.  The frame's sm is the object whose cursor is the
\* frame's state and whose table and terminal set are those of the variable sm,
\* which every shallow copy shares; works, the one list all the calls append to,
\* is kept in op.ret.val while the call runs.

\* The frame of a call recur(sm, length, path, works) that has not run yet, on an
\* object whose cursor is state.
RFrame(length, path, state) ==
    [length |-> length, path |-> path, state |-> state,
     ks |-> <<>>, i |-> 0, pc |-> "recur"]

\* The object the innermost call of recur was given.
TopSm == [sm EXCEPT !.state = Top.state]

\* The innermost call of recur is over, with works as given: try_sample returns
\* works, or the calling frame goes on to its next edge.
RReturn(works) ==
    IF Len(stack) = 1
    THEN /\ stack' = <<>>
         /\ op' = [op EXCEPT !.name = "try_sample", !.ret = [raised |-> FALSE, val |-> works]]
    ELSE /\ stack' = [SubSeq(stack, 1, Len(stack) - 1) EXCEPT ![Len(stack) - 1] =
                          [@ EXCEPT !.i = @ + 1, !.pc = "recur:for"]]
         /\ op' = [op EXCEPT !.ret.val = works]

\* An exception leaves every frame: nothing catches it.
RRaise(e) ==
    /\ stack' = <<>>
    /\ op' = [op EXCEPT !.name = "try_sample", !.ret = [raised |-> TRUE, val |-> e]]

\* try_sample(sm, length) is called: works = [] and recur(sm, length, "", works)
\* is entered.
RBegin ==
    /\ stack = <<>>
    /\ sm.constructed
    /\ \E length \in 0..MaxSample :
          /\ stack' = <<RFrame(length, <<>>, sm.state)>>
          /\ op' = [name |-> "recur", arg |-> length, pre |-> sm.state,
                    ret |-> [raised |-> FALSE, val |-> <<>>]]
    /\ UNCHANGED <<edges, init_state, terminals, dict_order, sm>>

\* From "if (length == 0)" to the head of the for loop.
REnter ==
    /\ stack # <<>>
    /\ Top.pc = "recur"
    /\ IF Top.length = 0
       THEN /\ RReturn(IF is_terminal(TopSm).val THEN Append(op.ret.val, Top.path)
                       ELSE op.ret.val)
            /\ UNCHANGED sm
       ELSE LET e == out_edges(TopSm)
            IN  /\ sm' = Shared(sm, e.sm)
                /\ IF e.raised
                   THEN RRaise(e.val)
                   ELSE /\ stack' = WithTop([Top EXCEPT !.ks = Keys(e.val), !.i = 1,
                                                       !.pc = "recur:for"])
                        /\ UNCHANGED op
    /\ UNCHANGED <<edges, init_state, terminals, dict_order>>

\* Mutant of RLoop: "recur(smCopy, length, path + edge, works)", the length passed
\* on as it is.
RLoopSameLength ==
    /\ stack # <<>>
    /\ Top.pc = "recur:for"
    /\ IF Top.i > Len(Top.ks)
       THEN RReturn(op.ret.val) /\ UNCHANGED sm
       ELSE LET edge == Top.ks[Top.i]
                smCopy == Copy(TopSm)
                a == advance(smCopy, edge)
            IN  /\ sm' = Shared(sm, a.sm)
                /\ IF a.raised
                   THEN RRaise(a.val)
                   ELSE /\ stack' = Append(WithTop([Top EXCEPT !.pc = "recur:called"]),
                                           RFrame(Top.length, Append(Top.path, edge),
                                                  a.sm.state))
                        /\ UNCHANGED op
    /\ UNCHANGED <<edges, init_state, terminals, dict_order>>

\* The for loop: the object is copied, the copy advanced along the next edge and
\* recur called on it, or the loop is over and recur returns.
RLoop ==
    /\ stack # <<>>
    /\ Top.pc = "recur:for"
    /\ IF Top.i > Len(Top.ks)
       THEN RReturn(op.ret.val) /\ UNCHANGED sm
       ELSE LET edge == Top.ks[Top.i]
                smCopy == Copy(TopSm)
                a == advance(smCopy, edge)
            IN  /\ sm' = Shared(sm, a.sm)
                /\ IF a.raised
                   THEN RRaise(a.val)
                   ELSE /\ stack' = Append(WithTop([Top EXCEPT !.pc = "recur:called"]),
                                           RFrame(Top.length - 1, Append(Top.path, edge),
                                                  a.sm.state))
                        /\ UNCHANGED op
    /\ UNCHANGED <<edges, init_state, terminals, dict_order>>

\* A statement of a running sample or try_sample call.
Running ==
    \/ S2Enter
    \/ S2Loop
    \/ S2Restore
    \/ REnter
    \/ RLoop

NextEnum ==
    \/ Construct
    \/ Advance
    \/ S2Begin
    \/ RBegin
    \/ Running

\* The interpreter goes on to the next statement of a call that has one.
SpecEnum == Init /\ [][NextEnum]_vars /\ WF_vars(Running)

-----------------------------------------------------------------------------
\* The machines the notebook defines, each with the calls its cells make.

\* The calls with their arguments drawn from given sets.
AdvanceIn(S) ==
    /\ sm.constructed
    /\ \E symbol \in S : Called("advance", symbol, advance(sm, symbol))

CheckIn(W) ==
    /\ sm.constructed
    /\ \E string \in W : Called("check", string, check(sm, string))

SampleIn(N) ==
    /\ sm.constructed
    /\ \E length \in N : Called("sample", length, sample(sm, length))

TrySampleIn(N) ==
    /\ sm.constructed
    /\ \E length \in N : Called("try_sample", length, try_sample(sm, length))

\* The state before the constructor is called with the given arguments.
InitWith(es, init, terms, orders) ==
    /\ edges = es
    /\ init_state = init
    /\ terminals = terms
    /\ dict_order \in orders
    /\ sm = NoMachine
    /\ op = [name |-> "new", arg |-> "", pre |-> "", ret |-> [raised |-> FALSE, val |-> "None"]]
    /\ stack = <<>>

\* ab_a_: the machine of the first code cell, said to accept aba+.
AbAEdges == <<<<"s1", "a", "s2">>, <<"s2", "b", "s3">>, <<"s3", "a", "s3">>>>
\* The strings over a and b of up to four characters.
AbAStrings == UNION {[1..n -> {"a", "b"}] : n \in {0, 1, 2, 3, 4}}

InitAbA == InitWith(AbAEdges, "s1", <<"s3">>, DictOrdersOf(AbAEdges))

NextAbA ==
    \/ Construct
    \/ AdvanceIn({"a", "b"})
    \/ IsTerminal
    \/ OutEdges
    \/ CheckIn(AbAStrings)

SpecAbA == InitAbA /\ [][NextAbA]_vars

\* test2: the machine for addresses made of x, @ and '.'.
\* Mutant of Test2Edges: the edge list the cell keeps commented out, which has no
\* edge from s6 back to s5.
Test2EdgesOld ==
    <<<<"s1", "x", "s2">>, <<"s2", "x", "s2">>, <<"s2", "@", "s3">>,
      <<"s3", "x", "s4">>, <<"s4", "x", "s4">>, <<"s4", ".", "s5">>,
      <<"s5", "x", "s6">>, <<"s6", "x", "s6">>>>

Test2Edges ==
    <<<<"s1", "x", "s2">>, <<"s2", "x", "s2">>, <<"s2", "@", "s3">>,
      <<"s3", "x", "s4">>, <<"s4", ".", "s5">>, <<"s4", "x", "s4">>,
      <<"s5", "x", "s6">>, <<"s6", "x", "s6">>, <<"s6", ".", "s5">>>>

\* The lengths the cells call sample(test2(), i) with.
Test2Lengths == 0..8
\* The lengths the cell calls try_sample(test2(), i) with: range (0, 10).
Test2TryLengths == 0..9
\* n times x.
Xs(n) == [i \in 1..n |-> "x"]
\* The strings the cell gives to check: those it asserts accepted,
\* x@x.x, xx@xxxx.xxxxxxx, x@xxxx.xx, x@x.xx.x, xxx@xx.xx.xx.xxx,
\* and those it asserts rejected,
\* x, x@., x@x., @x.x, x@.xx, x.x@x, x@x..x, x@x@x.x.
Test2Strings ==
    {<<"x", "@", "x", ".", "x">>,
     Xs(2) \o <<"@">> \o Xs(4) \o <<".">> \o Xs(7),
     <<"x", "@">> \o Xs(4) \o <<".", "x", "x">>,
     <<"x", "@", "x", ".", "x", "x", ".", "x">>,
     Xs(3) \o <<"@", "x", "x", ".", "x", "x", ".", "x", "x", ".">> \o Xs(3),
     <<"x">>,
     <<"x", "@", ".">>,
     <<"x", "@", "x", ".">>,
     <<"@", "x", ".", "x">>,
     <<"x", "@", ".", "x", "x">>,
     <<"x", ".", "x", "@", "x">>,
     <<"x", "@", "x", ".", ".", "x">>,
     <<"x", "@", "x", "@", "x", ".", "x">>}

InitTest2 == InitWith(Test2Edges, "s1", <<"s6">>, DictOrdersOf(Test2Edges))

\* The last call was the constructor's: the object is the one test2() has just
\* returned.
Fresh == op.name = "StateMachine"

\* Every call of the cells is made on a new test2().
NextTest2 ==
    \/ Construct
    \/ Fresh /\ CheckIn(Test2Strings)
    \/ Fresh /\ TrySampleIn(Test2TryLengths)
    \/ Fresh /\ SampleIn(Test2Lengths)

SpecTest2 == InitTest2 /\ [][NextTest2]_vars

\* test3: the machine for phone numbers ddd-ddd-dddd.
Digits == <<"1", "2", "3", "4", "5", "6", "7", "8", "9", "0">>

\* The ten edges from src to dest, one per digit, in the order the cell lists them.
DigitEdges(src, dest) == [i \in 1..Len(Digits) |-> <<src, Digits[i], dest>>]

Test3Edges ==
    DigitEdges("s1", "s2") \o DigitEdges("s2", "s3") \o DigitEdges("s3", "s4")
        \o <<<<"s4", "-", "s5">>>>
        \o DigitEdges("s5", "s6") \o DigitEdges("s6", "s7") \o DigitEdges("s7", "s8")
        \o <<<<"s8", "-", "s9">>>>
        \o DigitEdges("s9", "s10") \o DigitEdges("s10", "s11")
        \o DigitEdges("s11", "s12") \o DigitEdges("s12", "s13")

Test3Symbols == ToSet(Digits) \cup {"-", "a"}

\* The strings the cell asserts on.
Phone1 == <<"1", "2", "3", "-", "4", "5", "6", "-", "7", "8", "9", "0">>
Phone2 == <<"0", "0", "0", "-", "8", "9", "2", "-", "9", "8", "2", "9">>
Phone3 == <<"0", "0", "0", "8", "8", "8", "7", "4", "6", "3">>
Phone4 == <<"a", "9", "3", "-", "4", "8", "9", "-", "9", "8", "3", "3">>
Phone5 == <<"2", "3", "3", "-", "4", "3", "4", "-", "2", "3", "4", "3", "2">>
Test3Strings == {Phone1, Phone2, Phone3, Phone4, Phone5}

\* No call made on test3 iterates a dict, so the iteration order is immaterial here.
InitTest3 == InitWith(Test3Edges, "s1", <<"s13">>, {<<>>})

NextTest3 ==
    \/ Construct
    \/ AdvanceIn(Test3Symbols)
    \/ IsTerminal
    \/ CheckIn(Test3Strings)

SpecTest3 == InitTest3 /\ [][NextTest3]_vars

-----------------------------------------------------------------------------
\* The automaton the constructor's arguments describe, read off the edge list
\* itself: what the properties below are stated against.

\* The destinations the edge list gives for (q, s).
Succ(q, s) ==
    {edges[i][3] : i \in {j \in 1..Len(edges) : edges[j][1] = q /\ edges[j][2] = s}}

\* q is named in the terminals argument.
Terminal(q) == \E i \in 1..Len(terminals) : terminals[i] = q

RECURSIVE Reach(_, _)
\* The states reached from q by following an edge for each symbol of w in turn.
Reach(q, w) ==
    IF w = <<>> THEN {q}
    ELSE UNION {Reach(t, Tail(w)) : t \in Succ(q, Head(w))}

\* w is accepted from q: every symbol follows an edge and the last state is terminal.
Accepted(q, w) == \E t \in Reach(q, w) : Terminal(t)

\* The strings of exactly n symbols.
StringsOf(n) == [1..n -> Symbols]

\* The last call returned (did not raise).
Returned(name) == op.name = name /\ ~op.ret.raised

-----------------------------------------------------------------------------
\* C1: whenever advance is called with a symbol for which the current state has
\* no out-edge, the call raises and the current state is what it was before.
C1_AdvanceInvalidRaises ==
    (op.name = "advance" /\ Succ(op.pre, op.arg) = {})
        => (op.ret.raised /\ sm.state = op.pre)

\* advance was called at a state that has out-edges, with a symbol that labels none.
C1_Witness ==
    /\ op.name = "advance"
    /\ Succ(op.pre, op.arg) = {}
    /\ \E s \in Symbols : Succ(op.pre, s) # {}
    /\ op.pre # init_state

\* C2 (as stated): check evaluates the string from the initial state whatever the
\* cursor was, so its result is the acceptance of the string from the initial state.
C2_CheckFromInitial ==
    op.name = "check" =>
        ((~op.ret.raised /\ op.ret.val) <=> Accepted(init_state, op.arg))

\* C2 (amended): check evaluates the string from the state the cursor is in at the
\* call, without resetting it: it returns true exactly when the string is accepted
\* from that state.
C2_CheckFromCursor ==
    op.name = "check" =>
        ((~op.ret.raised /\ op.ret.val) <=> Accepted(op.pre, op.arg))

\* check returned true on a machine whose cursor had left the initial state, for a
\* string that is not accepted from the initial state.
C2_Witness ==
    /\ Returned("check")
    /\ op.pre # init_state
    /\ op.ret.val
    /\ ~Accepted(init_state, op.arg)

\* C3: on a freshly constructed machine, check returns true exactly when the string
\* follows an edge at every step from the initial state and ends in a terminal state.
C3_CheckFresh ==
    [][(op.name = "StateMachine" /\ op'.name = "check")
          => ((~op'.ret.raised /\ op'.ret.val) <=> Accepted(init_state, op'.arg))]_vars

\* check accepted a string of two symbols from the initial state.
C3_Witness ==
    /\ Returned("check")
    /\ op.pre = init_state
    /\ Len(op.arg) = 2
    /\ op.ret.val
    /\ Accepted(init_state, op.arg)

\* C4: check returns a boolean and never raises, for every machine that can be
\* constructed and every string.
C4_CheckNeverRaises ==
    op.name = "check" => (~op.ret.raised /\ op.ret.val \in BOOLEAN)

\* C5: out_edges returns the symbol -> successor mapping of the current state, the
\* empty mapping when the state has no out-edge, and never raises.
C5_OutEdgesTotal ==
    op.name = "out_edges" =>
        /\ ~op.ret.raised
        /\ \A s \in Symbols :
              IF Succ(op.pre, s) = {} THEN ~HasKey(op.ret.val, s)
              ELSE HasKey(op.ret.val, s) /\ Get(op.ret.val, s) \in Succ(op.pre, s)

\* Two edges of the list share source and symbol and differ in destination.
Conflict ==
    \E i, j \in 1..Len(edges) :
        /\ i < j
        /\ edges[i][1] = edges[j][1]
        /\ edges[i][2] = edges[j][2]
        /\ edges[i][3] # edges[j][3]

\* C6: the constructor raises when two edges share (source, symbol) with different
\* destinations, and no constructed machine holds two successors for one pair.
C6_ConflictRejected ==
    /\ (op.name = "StateMachine" /\ Conflict) => (op.ret.raised /\ ~sm.constructed)
    /\ sm.constructed =>
          /\ ~Conflict
          /\ \A q \in DOMAIN sm.states :
                \A i, j \in 1..Len(sm.states[q]) :
                    sm.states[q][i][1] = sm.states[q][j][1] => i = j

\* The constructor was given two conflicting edges and raised.
C6_Witness == op.name = "StateMachine" /\ Conflict /\ op.ret.raised

\* C7: every string sample or try_sample returns has exactly the requested number
\* of symbols and is accepted from the state the cursor was in at the call.
C7_SampleSound ==
    (Returned("sample") \/ Returned("try_sample")) =>
        \A i \in 1..Len(op.ret.val) :
            /\ Len(op.ret.val[i]) = op.arg
            /\ Accepted(op.pre, op.ret.val[i])

\* An enumerator returned two or more strings of two symbols.
C7_Witness ==
    /\ (Returned("sample") \/ Returned("try_sample"))
    /\ op.arg = 2
    /\ Len(op.ret.val) >= 2

\* C8: sample returns every string of exactly the requested length that is accepted
\* from the current state.
C8_SampleComplete ==
    op.name = "sample" =>
        \A w \in StringsOf(op.arg) :
            Accepted(op.pre, w) => (~op.ret.raised /\ w \in ToSet(op.ret.val))

\* sample was asked for one symbol or more at a state from which two strings of
\* that length are accepted whose first symbols lead to different states.
C8_Witness ==
    /\ Returned("sample")
    /\ op.arg >= 1
    /\ \E v, w \in StringsOf(op.arg) :
          /\ Succ(op.pre, v[1]) # Succ(op.pre, w[1])
          /\ Accepted(op.pre, v)
          /\ Accepted(op.pre, w)
          /\ v \in ToSet(op.ret.val)
          /\ w \in ToSet(op.ret.val)

\* C9: with length 0 the enumerators return the one empty string when the current
\* state is terminal and nothing otherwise.
C9_SampleLengthZero ==
    ((op.name = "sample" \/ op.name = "try_sample") /\ op.arg = 0) =>
        /\ ~op.ret.raised
        /\ op.ret.val = (IF Terminal(op.pre) THEN << <<>> >> ELSE <<>>)

\* An enumerator was asked for length 0 at a terminal state other than the initial one.
C9_Witness ==
    /\ Returned("try_sample")
    /\ op.arg = 0
    /\ Terminal(op.pre)
    /\ op.pre # init_state

\* The methods of the class, and those of them that only read.
Methods == {"out_edges", "is_terminal", "is_stuck", "advance"}
Queries == {"out_edges", "is_terminal", "is_stuck"}

\* C10: out_edges, is_terminal and is_stuck leave the current state, the table and
\* the terminal set as they were; of the methods only advance changes the object.
C10_QueriesPure ==
    [][/\ op'.name \in Queries => sm' = sm
       /\ (op'.name \in Methods /\ sm' # sm) => op'.name = "advance"]_vars

\* A query was called, and did not raise, after the cursor had left the initial state.
C10_Witness ==
    /\ op.name \in Queries
    /\ ~op.ret.raised
    /\ sm.state # init_state
    /\ sm.state = op.pre

\* C11: for ab_a_ (edges s1-a->s2, s2-b->s3, s3-a->s3, initial s1, terminal s3),
\* on a fresh machine check accepts "aba" and rejects "ab" and "ba".
C11_AbAScenario ==
    [][(op.name = "StateMachine" /\ op'.name = "check") =>
          /\ ~op'.ret.raised
          /\ op'.arg = <<"a", "b", "a">> => op'.ret.val
          /\ op'.arg = <<"a", "b">> => ~op'.ret.val
          /\ op'.arg = <<"b", "a">> => ~op'.ret.val]_vars

\* The accepted addresses of five and of six characters.
Address5 == <<"x", "@", "x", ".", "x">>
Addresses6 ==
    {<<"x", "@", "x", ".", "x", "x">>,
     <<"x", "@", "x", "x", ".", "x">>,
     <<"x", "x", "@", "x", ".", "x">>}

\* C12: for test2 at its initial state the enumerators return nothing for lengths
\* 0 to 4, exactly x@x.x at 5, exactly x@x.xx, x@xx.x, xx@x.x at 6, 7 strings at 7
\* and 14 strings at 8.
C12_Test2Counts ==
    ((op.name = "sample" \/ op.name = "try_sample") /\ op.pre = "s1") =>
        /\ ~op.ret.raised
        /\ op.arg <= 4 => op.ret.val = <<>>
        /\ op.arg = 5 => op.ret.val = <<Address5>>
        /\ op.arg = 6 => (Len(op.ret.val) = 3 /\ ToSet(op.ret.val) = Addresses6)
        /\ op.arg = 7 => Len(op.ret.val) = 7
        /\ op.arg = 8 => Len(op.ret.val) = 14

\* sample returned fourteen strings of eight characters from the initial state.
C12_Witness ==
    /\ Returned("sample")
    /\ op.pre = "s1"
    /\ op.arg = 8
    /\ Len(op.ret.val) = 14

\* C13: the list an enumerator returns holds no string twice.
C13_NoDuplicates ==
    (Returned("sample") \/ Returned("try_sample")) =>
        \A i, j \in 1..Len(op.ret.val) : op.ret.val[i] = op.ret.val[j] => i = j

\* try_sample returned four strings of two symbols.
C13_Witness ==
    /\ Returned("try_sample")
    /\ op.arg = 2
    /\ Len(op.ret.val) = 4

\* The state the edge list leads to from q along w, for w that follows edges.
StateAfter(q, w) == CHOOSE t \in Reach(q, w) : TRUE

\* The place of the first edge from q labelled s in the constructor's edge list.
Declared(q, s) ==
    CHOOSE i \in 1..Len(edges) :
        /\ edges[i][1] = q /\ edges[i][2] = s
        /\ \A j \in 1..(i - 1) : ~(edges[j][1] = q /\ edges[j][2] = s)

\* The place of key s in the order in which the dict d is iterated.
Visited(d, s) == CHOOSE i \in 1..Len(Keys(d)) : Keys(d)[i] = s

\* The first position at which the strings v and w of equal length differ.
FirstDiff(v, w) ==
    CHOOSE k \in 1..Len(v) : v[k] # w[k] /\ \A h \in 1..(k - 1) : v[h] = w[h]

\* C14 (as stated): of two results, the one whose symbol at the first difference
\* labels the edge declared earlier in the constructor's edge list comes first.
C14_DeclarationOrder ==
    Returned("sample") =>
        \A i, j \in 1..Len(op.ret.val) :
            i < j =>
                LET v == op.ret.val[i]
                    w == op.ret.val[j]
                    k == FirstDiff(v, w)
                    q == StateAfter(op.pre, SubSeq(v, 1, k - 1))
                IN  Declared(q, v[k]) < Declared(q, w[k])

\* C14 (amended): of two results, the one whose symbol at the first difference
\* comes earlier in the iteration order of the out-edge dict of the state reached
\* by the common prefix comes first.
C14_IterationOrder ==
    Returned("sample") =>
        \A i, j \in 1..Len(op.ret.val) :
            i < j =>
                LET v == op.ret.val[i]
                    w == op.ret.val[j]
                    k == FirstDiff(v, w)
                    q == StateAfter(op.pre, SubSeq(v, 1, k - 1))
                IN  Visited(sm.states[q], v[k]) < Visited(sm.states[q], w[k])

\* sample returned two strings that first differ after a common first symbol, on an
\* interpreter whose dicts are iterated against the order of insertion.
C14_Witness ==
    /\ Returned("sample")
    /\ \E i, j \in 1..Len(op.ret.val) :
          /\ i < j
          /\ FirstDiff(op.ret.val[i], op.ret.val[j]) = 2
          /\ LET q == StateAfter(op.pre, SubSeq(op.ret.val[i], 1, 1))
             IN  Declared(q, op.ret.val[i][2]) > Declared(q, op.ret.val[j][2])

\* C15: for test3, on a fresh machine, check accepts "123-456-7890" and rejects
\* "0008887463" and "233-434-23432".
C15_Test3Scenario ==
    [][(op.name = "StateMachine" /\ op'.name = "check") =>
          /\ ~op'.ret.raised
          /\ op'.arg = Phone1 => op'.ret.val
          /\ op'.arg = Phone3 => ~op'.ret.val
          /\ op'.arg = Phone5 => ~op'.ret.val]_vars

\* check rejected "233-434-23432" from the initial state, stopping at s13.
C15_Witness ==
    /\ Returned("check")
    /\ op.pre = "s1"
    /\ op.arg = Phone5
    /\ ~op.ret.val
    /\ sm.state = "s13"

\* C16: a successful advance puts the cursor on the destination the edge list
\* gives for (state before, symbol), and a run of successful advances puts it on
\* the one state the edge list determines for the whole sequence.
C16_AdvanceFollowsTable ==
    /\ Returned("advance") => Succ(op.pre, op.arg) = {sm.state}
    /\ Returned("advance*") => Reach(op.pre, op.arg) = {sm.state}

\* Two symbols were advanced along, one after the other, from the initial state,
\* through a state other than the one reached.
C16_Witness ==
    /\ Returned("advance*")
    /\ Len(op.arg) = 2
    /\ op.pre = init_state
    /\ Succ(op.pre, op.arg[1]) # {sm.state}

\* The statement-by-statement run of sample returns what sample returns.
StepsAgreeWithSample ==
    op.name = "sample" =>
        LET r == sample([sm EXCEPT !.state = op.pre], op.arg)
        IN  r.raised = op.ret.raised /\ r.val = op.ret.val /\ r.sm = sm

\* C17: in sample2, whenever a call is about to read the cursor (on entry, and at
\* the head of the loop before each sibling edge is advanced along) the cursor is
\* the state its own path leads to from the state at the call of sample: the
\* state it had on entry, whatever the branches explored before did.
C17_SiblingsFromEntryState ==
    (stack # <<>> /\ Top.pc \in {"enter", "loop"}) =>
        /\ Reach(op.pre, Top.sofar) = {sm.state}
        /\ Top.pc = "loop" => Top.state = sm.state

\* The second edge of a state is about to be advanced along after the first edge
\* had taken the cursor to another state.
C17_Witness ==
    /\ stack # <<>>
    /\ Top.pc = "loop"
    /\ Top.i = 2
    /\ Len(Top.ks) = 2
    /\ Succ(Top.state, Top.ks[1]) # {Top.state}
    /\ sm.state = Top.state

\* C18: when sample or try_sample returns, the current state of the machine passed
\* in is the state it had before the call.
C18_EnumerateRestoresCursor ==
    (Returned("sample") \/ Returned("try_sample")) => sm.state = op.pre

\* try_sample has returned a string whose first symbol leads out of the state the
\* call started in.
C18_Witness ==
    /\ Returned("try_sample")
    /\ op.arg >= 1
    /\ Len(op.ret.val) >= 1
    /\ Succ(op.pre, op.ret.val[1][1]) # {op.pre}
    /\ sm.state = op.pre

\* C19: sample and try_sample, called on the same machine in the same state with
\* the same length, return the same list in the same order (and one raises exactly
\* when the other does).
C19_EnumeratorsAgree ==
    [][/\ op'.name = "sample" =>
             LET t == try_sample(sm, op'.arg)
             IN  /\ t.raised = op'.ret.raised
                 /\ ~t.raised => t.val = op'.ret.val
       /\ op'.name = "try_sample" =>
             LET s == sample(sm, op'.arg)
             IN  /\ s.raised = op'.ret.raised
                 /\ ~s.raised => s.val = op'.ret.val]_vars

\* sample has returned two strings that differ in their first symbol, on an
\* interpreter that iterates the dict of the starting state against its insertion
\* order.
C19_Witness ==
    /\ Returned("sample")
    /\ Len(op.ret.val) = 2
    /\ op.ret.val[1][1] # op.ret.val[2][1]
    /\ Keys(sm.states[op.pre]) # KeySeq(sm.states[op.pre])
    /\ try_sample([sm EXCEPT !.state = op.pre], op.arg).val = op.ret.val

\* The states the edge list names, as a source or as a destination.
TableStates == {edges[i][1] : i \in 1..Len(edges)} \cup {edges[i][3] : i \in 1..Len(edges)}

\* C20: after construction and whatever calls follow, returning or raising, the
\* current state is the initial state or a state that some edge names as its
\* source or destination.
C20_CursorInTable ==
    sm.constructed => sm.state \in {init_state} \cup TableStates

\* check has left the cursor in a state other than the initial one that is the
\* destination of an edge and the source of none.
C20_Witness ==
    /\ op.name = "check"
    /\ sm.state # init_state
    /\ \E i \in 1..Len(edges) : edges[i][3] = sm.state
    /\ \A i \in 1..Len(edges) : edges[i][1] # sm.state

\* C21: after a construction that did not raise, the table holds, for every state
\* the edge list names, a dict whose items are exactly the (symbol, destination)
\* pairs of the edges leaving that state, each once, and holds no other state; the
\* current state is the given initial state; and the terminal set is the set of
\* the given terminals.
C21_ConstructionResult ==
    Returned("StateMachine") =>
        /\ sm.constructed
        /\ DOMAIN sm.states = TableStates
        /\ \A q \in DOMAIN sm.states :
              /\ {<<sm.states[q][k][1], sm.states[q][k][2]>> : k \in 1..Len(sm.states[q])}
                    = {<<edges[i][2], edges[i][3]>> : i \in {j \in 1..Len(edges) : edges[j][1] = q}}
              /\ \A k, l \in 1..Len(sm.states[q]) :
                    sm.states[q][k][1] = sm.states[q][l][1] => k = l
        /\ sm.state = init_state
        /\ \A q \in StateIds \cup sm.terminal_states : q \in sm.terminal_states <=> Terminal(q)

\* A machine was constructed from two edges, one of which leads to a state that no
\* edge leaves, with a terminal given twice.
C21_Witness ==
    /\ Returned("StateMachine")
    /\ Len(edges) = 2
    /\ \E i \in 1..Len(edges) : \A j \in 1..Len(edges) : edges[j][1] # edges[i][3]
    /\ Len(terminals) = 2
    /\ terminals[1] = terminals[2]
    /\ sm.states[edges[1][3]] = <<>>

\* The edge list repeats a (source, symbol) pair, with whatever destinations.
Repeats ==
    \E i, j \in 1..Len(edges) :
        i < j /\ edges[i][1] = edges[j][1] /\ edges[i][2] = edges[j][2]

\* The index of the first edge whose (source, symbol) pair an earlier edge has.
FirstRepeat ==
    CHOOSE j \in 1..Len(edges) :
        /\ \E i \in 1..(j - 1) : edges[i][1] = edges[j][1] /\ edges[i][2] = edges[j][2]
        /\ \A l \in 1..(j - 1) : \A i \in 1..(l - 1) :
              ~(edges[i][1] = edges[l][1] /\ edges[i][2] = edges[l][2])

\* C24: construction raises exactly when some edge's (source, symbol) pair is that
\* of an earlier edge, whether the two destinations are equal or not, and it
\* raises at the first such edge: the table it has built by then names only the
\* states of the edges up to that one.
C24_RepeatedPairRejected ==
    op.name = "StateMachine" =>
        /\ op.ret.raised <=> Repeats
        /\ Repeats =>
              LET r == InitLoop(edges, 1, <<>>)
              IN  /\ r.raised
                  /\ DOMAIN r.states = {edges[i][1] : i \in 1..FirstRepeat}
                                           \cup {edges[i][3] : i \in 1..FirstRepeat}

\* Construction raised on an edge list that gives the same triple twice.
C24_Witness ==
    /\ op.name = "StateMachine"
    /\ op.ret.raised
    /\ Len(edges) = 2
    /\ edges[1] = edges[2]
    /\ ~sm.constructed

\* C22: once the machine is constructed, no call changes its table or its
\* terminal set, the calls that work on shallow copies included; a call changes
\* at most the current state.
C22_TableFixed ==
    [][sm.constructed =>
          /\ sm'.constructed
          /\ sm'.states = sm.states
          /\ sm'.terminal_states = sm.terminal_states]_vars

\* try_sample has returned a string of two symbols from a state with two
\* out-edges, so that copies were advanced along several edges.
C22_Witness ==
    /\ Returned("try_sample")
    /\ op.arg = 2
    /\ Len(op.ret.val) >= 1
    /\ Len(sm.states[op.pre]) = 2
    /\ sm.states = InitLoop(edges, 1, <<>>).states

\* The statement-by-statement run of try_sample returns what try_sample returns.
StepsAgreeWithTrySample ==
    op.name = "try_sample" =>
        LET r == try_sample([sm EXCEPT !.state = op.pre], op.arg)
        IN  r.raised = op.ret.raised /\ r.val = op.ret.val /\ r.sm = sm

\* While sample(sm, n) or try_sample(sm, n) runs, at most n calls are nested in
\* the outermost one, and the k-th call from the outside has length n - (k - 1).
DepthWithinLength ==
    stack # <<>> =>
        /\ Len(stack) <= op.arg + 1
        /\ \A k \in 1..Len(stack) : stack[k].length + (k - 1) = op.arg

\* C23: for every machine, cyclic ones included, and every length n, a call of
\* sample or try_sample comes to an end, and while it runs the recursion is never
\* deeper than n: each nested call has a length one less than its caller's, and a
\* call with length 0 makes none.
C23_TerminatesWithinDepth ==
    /\ []DepthWithinLength
    /\ (stack # <<>>) ~> (stack = <<>>)

\* try_sample(sm, MaxSample) has followed a cycle back to the state it started in
\* and is as deep as the length allows.
C23_Witness ==
    /\ stack # <<>>
    /\ op.name = "recur"
    /\ op.arg = MaxSample
    /\ Len(stack) = op.arg + 1
    /\ Top.length = 0
    /\ Top.state = stack[1].state

=============================================================================
